---- MODULE Spec2Model ----
(***************************************************************************)
(* Model of the heightmap generator (src/src/main.rs): the header decoder, *)
(* the run-length tile decoder (parse_points), Map::parse, the coordinate  *)
(* mapper (get_position) and the rasterizer loop of create_map_image.      *)
(*                                                                         *)
(* The input file is a byte stream of which only the length (avail) is     *)
(* fixed up front; the content of each byte is drawn when it is read, and  *)
(* the bytes read from the tile section are kept in `stream`.              *)
(* f32 values are modelled exactly: heights are integers decoded from      *)
(* their IEEE-754 little-endian words, and the header's height ranges have *)
(* a power-of-two (or zero) difference, so that the subtraction, division  *)
(* and multiplication of create_map_image are exact in f32.                *)
(***************************************************************************)
EXTENDS Integers, Sequences, FiniteSets, TLC

\* ---------------------------------------------------------------- bounds
MaxDim == 2
MaxStream == 20

\* ------------------------------------------------------ program constants
NameSize == 32
PointSize == 8
U8Max == 255

\* sizes of the 17 typed header fields read by MapHeader::parse before the name
HeaderFieldSizes == <<4, 4, 4, 4, 4, 4, 4, 4, 4, 4, 4, 4, 4, 2, 2, 4, 4>>

RECURSIVE SumSeq(_)
SumSeq(s) == IF s = <<>> THEN 0 ELSE Head(s) + SumSeq(Tail(s))

TypedFieldsSize == SumSeq(HeaderFieldSizes)
HeaderSize == TypedFieldsSize + NameSize

\* ------------------------------------------------------------ input sets
\* run-code bytes the stream may hold: 0, 1, 2, 127 (data runs of 1, 2, 3, 128)
\* and 0x80, 0xFE, 0xFF (skip runs of 128, 2, 1)
RunBytes == {0, 1, 2, 127, 128, 254, 255}

\* little-endian f32 words of the heights -1.0, 0.0, 1.0, 2.0, 3.0, 4.0, 5.0
F32Words == { <<0, 0, 128, 191>>, <<0, 0, 0, 0>>, <<0, 0, 128, 63>>,
              <<0, 0, 0, 64>>, <<0, 0, 64, 64>>, <<0, 0, 128, 64>>,
              <<0, 0, 160, 64>> }

\* the four trailing bytes of a point record (unk, r, g, b)
TailBytes == { <<0, 16, 32, 48>> }

PointBytes == { w \o t : w \in F32Words, t \in TailBytes }

\* (min_height, max_height) pairs of the header
HeightRanges == { <<0, 4>>, <<1, 3>>, <<2, 2>> }

Headers == [ w : 0..MaxDim, h : 0..MaxDim,
             min_height : { r[1] : r \in HeightRanges },
             max_height : { r[2] : r \in HeightRanges } ]

ValidHeaders == { hd \in Headers : <<hd.min_height, hd.max_height>> \in HeightRanges }

NoHeader == [ w |-> 0, h |-> 0, min_height |-> 0, max_height |-> 0 ]
NoMap == [ present |-> FALSE, header |-> NoHeader, points |-> <<>>, enabled |-> <<>> ]
NoPosition == <<-1, -1>>

VARIABLES pc, avail, stream, header, headerRes, counter, points, enabled_points,
          n, pointsRes, map, result, panic, index, offset, img, position

vars == <<pc, avail, stream, header, headerRes, counter, points, enabled_points,
          n, pointsRes, map, result, panic, index, offset, img, position>>

\* ------------------------------------------------------------- pure parts
RECURSIVE Pow2(_)
Pow2(k) == IF k = 0 THEN 1 ELSE 2 * Pow2(k - 1)

Abs(x) == IF x < 0 THEN -x ELSE x

\* read_i8: one byte as a two's-complement signed value
ReadI8(byte) == IF byte >= 128 THEN byte - 256 ELSE byte

\* read_f32::<LE>: IEEE-754 single from 4 little-endian bytes; defined for zero
\* and for normal numbers with an integral value (exponent 127..150)
ReadF32LE(b) ==
    LET sign == b[4] \div 128
        e    == (b[4] % 128) * 2 + (b[3] \div 128)
        m    == (b[3] % 128) * 65536 + b[2] * 256 + b[1]
        mag  == IF e = 0 /\ m = 0 THEN 0
                ELSE (Pow2(23) + m) \div Pow2(150 - e)
    IN  IF sign = 1 THEN -mag ELSE mag

\* TilePoint::parse on the 8 bytes of one record
TilePointParse(b) ==
    [ h |-> ReadF32LE(SubSeq(b, 1, 4)), unk |-> b[5], r |-> b[6], g |-> b[7], b |-> b[8] ]

\* let read_size = 1 + n as u32
ReadSize(code) == 1 + code

\* the run length taken as the raw run code for data runs, without the + 1
Amount_RawCode(code) == IF code >= 0 THEN code ELSE Abs(code)

\* let amount = if n >= 0 { read_size } else { n.abs() as u32 }
Amount(code) == IF code >= 0 THEN ReadSize(code) ELSE Abs(code)

\* the mask value taken from n > 0 instead of n >= 0
MaskRun_StrictlyPositive(code, amount) == [ i \in 1..amount |-> IF code > 0 THEN 1 ELSE 0 ]

\* vec![if enabled { 1 } else { 0 }; amount]
MaskRun(code, amount) == [ i \in 1..amount |-> IF code >= 0 THEN 1 ELSE 0 ]

RECURSIVE Flatten(_)
Flatten(ss) == IF ss = <<>> THEN <<>> ELSE Head(ss) \o Flatten(Tail(ss))

\* the mapping without the vertical flip
get_position_NoFlip(i, width, height) == <<i % width, i \div width>>

\* get_position(index, width, height)
get_position(i, width, height) ==
    LET x == i % width
        y == height - 1 - (i \div width)
    IN  <<x, y>>

\* the cast rounding to nearest instead of truncating
Pixel_Rounded(h, min_height, max_height) ==
    LET height_diff == max_height - min_height
        num == h - min_height
        sn  == IF height_diff < 0 THEN -num ELSE num
        sd  == Abs(height_diff)
    IN  IF height_diff = 0 THEN (IF num > 0 THEN U8Max ELSE 0)
        ELSE IF sn <= 0 THEN 0
        ELSE IF U8Max * sn >= U8Max * sd THEN U8Max
        ELSE (2 * U8Max * sn + sd) \div (2 * sd)

\* (255f32 * height_offset) as u8, where height_offset = (h - min) / diff:
\* the cast truncates toward zero and saturates; x/0 is +-inf or NaN
\* (NaN and -inf cast to 0, +inf to 255)
Pixel(h, min_height, max_height) ==
    LET height_diff == max_height - min_height
        num == h - min_height
        sn  == IF height_diff < 0 THEN -num ELSE num
        sd  == Abs(height_diff)
    IN  IF height_diff = 0 THEN (IF num > 0 THEN U8Max ELSE 0)
        ELSE IF sn <= 0 THEN 0
        ELSE IF U8Max * sn >= U8Max * sd THEN U8Max
        ELSE (U8Max * sn) \div sd

\* the cell is enabled: map.enabled[index] > 0u8
IsEnabled(e) == e > 0

\* the cursor left where it is after an enabled cell
NextOffset_Stuck(o) == o

\* offset += 1
NextOffset(o) == o + 1

\* Image::new(w, h): all pixels black
NewImage(w, h) == [ p \in (0..(w - 1)) \X (0..(h - 1)) |-> 0 ]

\* ------------------------------------------------------------------ Init
Init ==
    /\ pc = "header"
    /\ avail \in 0..(HeaderSize + MaxStream)
    /\ stream = <<>>
    /\ header = NoHeader
    /\ headerRes = "pending"
    /\ counter = 0
    /\ points = <<>>
    /\ enabled_points = <<>>
    /\ n = 0
    /\ pointsRes = "pending"
    /\ map = NoMap
    /\ result = "pending"
    /\ panic = "none"
    /\ index = 0
    /\ offset = 0
    /\ img = NewImage(0, 0)
    /\ position = NoPosition

\* --------------------------------------------------------------- actions
\* MapHeader::parse as called by Map::parse (with its .expect)
MapHeaderParse ==
    /\ pc = "header"
    /\ IF avail < TypedFieldsSize
       THEN \* a typed read fails: Err(UnexpectedEof), which Map::parse expects away
            /\ headerRes' = "UnexpectedEof"
            /\ panic' = "Invalid map header"
            /\ pc' = "panic"
            /\ UNCHANGED <<avail, header>>
       ELSE IF avail < HeaderSize
       THEN \* read_fixed_string: read_exact(..).unwrap() panics
            /\ panic' = "read_fixed_string unwrap"
            /\ pc' = "panic"
            /\ UNCHANGED <<avail, header, headerRes>>
       ELSE /\ \E hd \in ValidHeaders : header' = hd
            /\ headerRes' = "Ok"
            /\ avail' = avail - HeaderSize
            /\ pc' = "points"
            /\ UNCHANGED panic
    /\ UNCHANGED <<stream, counter, points, enabled_points, n, pointsRes, map,
                   result, index, offset, img, position>>

\* one iteration of the while loop of parse_points
RunIteration ==
    /\ pc = "points"
    /\ counter < header.w * header.h
    /\ IF avail = 0
       THEN \* b.read_i8()? returns the error from parse_points
            /\ pointsRes' = "UnexpectedEof"
            /\ pc' = "points_ret"
            /\ UNCHANGED <<avail, stream, counter, points, enabled_points, n, panic>>
       ELSE \E byte \in RunBytes :
            LET code == ReadI8(byte)
                amount == Amount(code)
            IN  /\ n' = code
                /\ IF code >= 0 /\ avail - 1 < PointSize * ReadSize(code)
                   THEN \* TilePoint::parse(b).expect("Failed to parse point")
                        /\ panic' = "Failed to parse point"
                        /\ pc' = "panic"
                        /\ UNCHANGED <<avail, stream, counter, points,
                                       enabled_points, pointsRes>>
                   ELSE /\ IF code >= 0
                           THEN \E recs \in [1..ReadSize(code) -> PointBytes] :
                                /\ points' = points \o
                                      [ i \in 1..ReadSize(code) |-> TilePointParse(recs[i]) ]
                                /\ stream' = stream \o <<byte>> \o Flatten(recs)
                                /\ avail' = avail - 1 - PointSize * ReadSize(code)
                           ELSE /\ points' = points
                                /\ stream' = stream \o <<byte>>
                                /\ avail' = avail - 1
                        /\ enabled_points' = enabled_points \o MaskRun(code, amount)
                        /\ counter' = counter + amount
                        /\ UNCHANGED <<pc, pointsRes, panic>>
    /\ UNCHANGED <<header, headerRes, map, result, index, offset, img, position>>

\* the loop condition fails: Ok((enabled_points, points))
ParsePointsReturn ==
    /\ pc = "points"
    /\ ~(counter < header.w * header.h)
    /\ pointsRes' = "Ok"
    /\ pc' = "points_ret"
    /\ UNCHANGED <<avail, stream, header, headerRes, counter, points, enabled_points,
                   n, map, result, panic, index, offset, img, position>>

\* Map::parse after parse_points: unwrap_or_default, Ok(Map {..}); then
\* decode_file enters create_map_image (Image::new, offset = 0)
MapParseReturn ==
    /\ pc = "points_ret"
    /\ map' = IF pointsRes = "Ok"
              THEN [ present |-> TRUE, header |-> header,
                     points |-> points, enabled |-> enabled_points ]
              ELSE [ present |-> TRUE, header |-> header,
                     points |-> <<>>, enabled |-> <<>> ]
    /\ result' = "Ok"
    /\ img' = NewImage(header.w, header.h)
    /\ index' = 0
    /\ offset' = 0
    /\ pc' = "raster"
    /\ UNCHANGED <<avail, stream, header, headerRes, counter, points, enabled_points,
                   n, pointsRes, panic, position>>

\* one index of (0..map_size).filter(..).for_each(..) in create_map_image
RasterStep ==
    /\ pc = "raster"
    /\ index < map.header.w * map.header.h
    /\ IF ~(index < Len(map.enabled))
       THEN /\ panic' = "enabled index out of bounds"
            /\ pc' = "panic"
            /\ UNCHANGED <<index, offset, img, position>>
       ELSE IF IsEnabled(map.enabled[index + 1])
       THEN IF ~(offset < Len(map.points))
            THEN /\ panic' = "points index out of bounds"
                 /\ pc' = "panic"
                 /\ UNCHANGED <<index, offset, img, position>>
            ELSE LET pos == get_position(index, map.header.w, map.header.h)
                     point == map.points[offset + 1]
                 IN  /\ position' = pos
                     /\ img' = [ img EXCEPT ![pos] =
                                   Pixel(point.h, map.header.min_height,
                                         map.header.max_height) ]
                     /\ offset' = NextOffset(offset)
                     /\ index' = index + 1
                     /\ UNCHANGED <<pc, panic>>
       ELSE /\ index' = index + 1
            /\ UNCHANGED <<pc, panic, offset, img, position>>
    /\ UNCHANGED <<avail, stream, header, headerRes, counter, points, enabled_points,
                   n, pointsRes, map, result>>

\* the range is exhausted: img.save
RasterDone ==
    /\ pc = "raster"
    /\ ~(index < map.header.w * map.header.h)
    /\ pc' = "done"
    /\ UNCHANGED <<avail, stream, header, headerRes, counter, points, enabled_points,
                   n, pointsRes, map, result, panic, index, offset, img, position>>

Next ==
    \/ MapHeaderParse
    \/ RunIteration
    \/ ParsePointsReturn
    \/ MapParseReturn
    \/ RasterStep
    \/ RasterDone

Spec == Init /\ [][Next]_vars


\* ------------------------------------------- the coordinate mapper alone
MaxPosDim == 6

PosInit ==
    /\ pc = "pos_call"
    /\ header \in [ w : 1..MaxPosDim, h : 1..MaxPosDim, min_height : {0}, max_height : {0} ]
    /\ index \in 0..(header.w * header.h - 1)
    /\ position = NoPosition
    /\ avail = 0
    /\ stream = <<>>
    /\ headerRes = "Ok"
    /\ counter = 0
    /\ points = <<>>
    /\ enabled_points = <<>>
    /\ n = 0
    /\ pointsRes = "pending"
    /\ map = NoMap
    /\ result = "pending"
    /\ panic = "none"
    /\ offset = 0
    /\ img = NewImage(0, 0)

GetPositionCall ==
    /\ pc = "pos_call"
    /\ position' = get_position(index, header.w, header.h)
    /\ pc' = "pos_done"
    /\ UNCHANGED <<avail, stream, header, headerRes, counter, points, enabled_points,
                   n, pointsRes, map, result, panic, index, offset, img>>

PosNext == GetPositionCall

SpecPos == PosInit /\ [][PosNext]_vars

\* ---------------------------------------------------------------- claims
total_cells == header.w * header.h

CountEnabled(mask) == Cardinality({ i \in 1..Len(mask) : mask[i] > 0 })

\* number of enabled cells among the linear indices 0..j-1
EnabledBefore(mask, j) == Cardinality({ i \in 1..j : mask[i] > 0 })

Ones(k) == [ i \in 1..k |-> 1 ]
Zeros(k) == [ i \in 1..k |-> 0 ]

\* C1: whenever Map::parse returns a Map, its enabled mask has exactly
\* width*height entries.
C1_MaskLengthIsGrid ==
    map.present => Len(map.enabled) = map.header.w * map.header.h

\* C2: a run that pushes consumed past total_cells fails with RunOverflow and
\* no Map holding the overshooting run is returned.
C2_OvershootIsRunOverflow ==
    counter > total_cells => (pointsRes = "RunOverflow" /\ ~map.present)

\* C3: when the stream ends before consumed == total_cells (at a run code or
\* inside a point record), Map::parse yields an UnexpectedEof failure: no
\* abort and no Map.
C3_EofIsAllOrNothing ==
    (pointsRes = "UnexpectedEof" \/ panic = "Failed to parse point")
        => (panic = "none" /\ result \in {"pending", "UnexpectedEof"} /\ ~map.present)

\* C4: after every completed iteration of the run loop, and in every Map
\* returned, the number of non-zero mask entries equals the number of points.
C4_EnabledCountIsPoints ==
    /\ pc \in {"points", "points_ret"} => CountEnabled(enabled_points) = Len(points)
    /\ map.present => CountEnabled(map.enabled) = Len(map.points)

C4_Witness ==
    /\ map.present
    /\ Len(map.points) = 2
    /\ Len(map.enabled) > Len(map.points)

\* C5: a stream shorter than the fixed header makes header decoding return a
\* typed UnexpectedEof failure; nothing below the CLI layer aborts.
C5_ShortHeaderIsTypedFailure ==
    (pc # "header" /\ headerRes # "Ok")
        => (headerRes = "UnexpectedEof" /\ result = "UnexpectedEof" /\ panic = "none")

\* C6: a completed iteration for run code n reads n+1 points in stream order
\* and appends n+1 enabled entries when n >= 0, appends |n| disabled entries and
\* reads no point bytes when n < 0, and adds the run length to consumed.
C6_RunIterationEffect ==
    [][ (pc = "points" /\ pc' = "points" /\ stream' # stream) =>
        LET at == Len(stream)
            byte == stream'[at + 1]
            code == IF byte >= 128 THEN byte - 256 ELSE byte
            run_len == IF code >= 0 THEN code + 1 ELSE -code
        IN  /\ n' = code
            /\ code \in -128..127
            /\ counter' = counter + run_len
            /\ IF code >= 0
               THEN /\ Len(points') = Len(points) + run_len
                    /\ SubSeq(points', 1, Len(points)) = points
                    /\ \A i \in 1..run_len :
                         LET from == at + 1 + PointSize * (i - 1)
                             pt == points'[Len(points) + i]
                         IN  /\ pt.h = ReadF32LE(SubSeq(stream', from + 1, from + 4))
                             /\ <<pt.unk, pt.r, pt.g, pt.b>> = SubSeq(stream', from + 5, from + 8)
                    /\ enabled_points' = enabled_points \o Ones(run_len)
                    /\ Len(stream') = at + 1 + PointSize * run_len
                    /\ avail' = avail - 1 - PointSize * run_len
               ELSE /\ points' = points
                    /\ enabled_points' = enabled_points \o Zeros(run_len)
                    /\ Len(stream') = at + 1
                    /\ avail' = avail - 1
      ]_vars

C6_Witness ==
    /\ pc = "points"
    /\ n < 0
    /\ Len(points) = 1
    /\ enabled_points = <<1, 0>>

\* C7: for width > 0, height > 0 and index < width*height, get_position gives
\* x = index mod width, y = height-1-(index div width), inside the grid, and
\* (height-1-y)*width + x is the index again.
C7_PositionRoundTrip ==
    pc = "pos_done" =>
        LET x == position[1]
            y == position[2]
        IN  /\ x \in 0..(header.w - 1)
            /\ y \in 0..(header.h - 1)
            /\ x = index % header.w
            /\ y = header.h - 1 - (index \div header.w)
            /\ (header.h - 1 - y) * header.w + x = index

C7_Witness ==
    /\ pc = "pos_done"
    /\ header.w = 3
    /\ header.h = 2
    /\ index = 4
    /\ position = <<1, 0>>

\* C8: while the rasterizer visits the indices in order, the point cursor is
\* the number of enabled cells visited so far; the k-th enabled cell is drawn
\* from points[k] at its mapped coordinate and disabled cells stay 0.
C8_CursorFollowsEnabled ==
    pc \in {"raster", "done"} =>
        /\ offset = EnabledBefore(map.enabled, index)
        /\ \A j \in 0..(index - 1) :
             LET pos == <<j % map.header.w, map.header.h - 1 - (j \div map.header.w)>>
                 k == EnabledBefore(map.enabled, j)
             IN  IF map.enabled[j + 1] > 0
                 THEN img[pos] = Pixel(map.points[k + 1].h, map.header.min_height,
                                       map.header.max_height)
                 ELSE img[pos] = 0

C8_Witness ==
    /\ pc = "done"
    /\ index = 4
    /\ offset = 2
    /\ map.enabled = <<0, 1, 0, 1>>
    /\ map.points[1].h = 1
    /\ map.points[2].h = 4
    /\ map.header.min_height = 0
    /\ map.header.max_height = 4

\* the in-range enabled cells already drawn, with the numerator and the
\* denominator of their normalized height
DrawnInRange ==
    { j \in 0..(index - 1) :
        /\ map.enabled[j + 1] > 0
        /\ map.header.max_height > map.header.min_height
        /\ LET hh == map.points[EnabledBefore(map.enabled, j) + 1].h
           IN  map.header.min_height <= hh /\ hh <= map.header.max_height }

DrawnPixel(j) == img[<<j % map.header.w, map.header.h - 1 - (j \div map.header.w)>>]
DrawnNum(j) == map.points[EnabledBefore(map.enabled, j) + 1].h - map.header.min_height
DrawnDen == map.header.max_height - map.header.min_height

\* C9 (as stated): an in-range enabled cell's pixel is
\* round(255 * (height - min_height) / (max_height - min_height)).
C9_RoundedIntensity ==
    pc \in {"raster", "done"} =>
        \A j \in DrawnInRange :
            DrawnPixel(j) = (2 * 255 * DrawnNum(j) + DrawnDen) \div (2 * DrawnDen)

\* C9 (amended): an in-range enabled cell's pixel is
\* 255 * (height - min_height) / (max_height - min_height) truncated toward
\* zero; min_height gives 0 and max_height gives 255.
C9_TruncatedIntensity ==
    pc \in {"raster", "done"} =>
        \A j \in DrawnInRange :
            /\ DrawnPixel(j) = (255 * DrawnNum(j)) \div DrawnDen
            /\ DrawnNum(j) = 0 => DrawnPixel(j) = 0
            /\ DrawnNum(j) = DrawnDen => DrawnPixel(j) = 255

C9_Witness ==
    /\ pc = "done"
    /\ \E j \in DrawnInRange : DrawnNum(j) = 1 /\ DrawnDen = 4 /\ DrawnPixel(j) = 63

\* C10: for every Map that Map::parse returns, the rasterizer only reads
\* enabled[index] with index < enabled.len() and points[offset] with
\* offset < points.len().
C10_RasterIndexInBounds ==
    (pc = "raster" /\ index < map.header.w * map.header.h) =>
        /\ index < Len(map.enabled)
        /\ IsEnabled(map.enabled[index + 1]) => offset < Len(map.points)

====
